---- MODULE Spec2Model ----
(***************************************************************************)
(* Verification model of the travel planner's workflow graph               *)
(* (multi_agent_system/langgraph_workflow.py), of its TTL cache and        *)
(* adapters (database/dual_db_manager.py, data_collection/api_collector.py,*)
(* data_collection/web_scraper.py) and of its workflow engine              *)
(* (multi_agent_system/workflow_engine.py).                                *)
(***************************************************************************)
EXTENDS Integers, Sequences, FiniteSets, TLC

VARIABLES
    \* ---- workflow graph run (langgraph_workflow.py) ----
    runStatus,        \* "Pending" | "Running" | "Completed" | "Failed"
    stageState,       \* per stage: "Waiting" | "Running" | "Done" | "Errored"
    raises,           \* the stages whose body raises in this run
    state,            \* the shared TravelState: keys present, steps_completed, errors
    triggered,        \* stages scheduled for the current superstep, not yet started
    pending,          \* dicts returned by the nodes of the current superstep, in completion order
    dispatched,       \* per stage: how many times it was started
    \* ---- time and the cache store (dual_db_manager.py) ----
    now,              \* datetime.now(), in ticks
    api_cache,        \* DualDatabaseManager api_cache table: cache_key -> row
    written,          \* per key: the arguments and time of the last set_api_cache
    lastGet,          \* the get_api_cache call that has just returned
    lastClear,        \* the clear_expired_cache call that has just returned
    \* ---- the adapter (api_collector.py) ----
    collector_cache,  \* APICollector api_cache table: cache_key -> row
    api_keys,         \* the api names APICollector.api_keys holds a key for
    request_counts,   \* APICollector.request_counts
    last_request_time,\* APICollector.last_request_time
    lastCall,         \* the _make_api_request call that has just returned
    released,         \* per instant: the calls _rate_limit_check has let through at it
    \* ---- cache key generation (api_collector.py) ----
    kpc,              \* "drawn" | "built" | "generated"
    kreq,             \* [api_name, endpoint, params]
    kparams2,         \* a second parameter mapping
    kkeys,            \* the two generated keys
    \* ---- concurrent connections to cache.db (dual_db_manager.py) ----
    cache_rows,       \* the rows of api_cache, as a set
    conn,             \* per thread: where its call stands and the row it selected
    setLog,           \* the <<cache_key, value>> pairs set_api_cache was called with
    lastStmt,         \* the statement that has just completed
    \* ---- the web scraper (web_scraper.py) ----
    web_cache,        \* WebScraper web_cache table: url -> row
    lastFetch,        \* the _make_request call that has just returned
    \* ---- the workflow engine (workflow_engine.py) ----
    workflows,        \* WorkflowEngine.workflows: name -> registered config
    agent_registry,   \* the names in WorkflowEngine.agent_registry
    active_workflows, \* WorkflowEngine.active_workflows: workflow_id -> record
    workflow_history, \* WorkflowEngine.workflow_history
    lastRun,          \* the execute_workflow call that has just returned
    \* ---- the run entry point (langgraph_workflow.py) ----
    lastTravel,       \* the run_travel_workflow call that has just returned
    \* ---- the geocode cache (geocoding_helper.py) ----
    geocode_cache,    \* geocode_cache table: <<lat, lon>> -> <<>> or <<row>>
    obtained,         \* per 4-decimal pair: what get_detailed_info fetched for it
    lastGeo,          \* the GeocodingHelper call that has just returned
    \* ---- the agent manager (agent_manager.py) ----
    tasks,            \* AgentManager.tasks: task_id -> [agent_id, task_type, status]
    task_queue,       \* AgentManager.task_queue, the task ids in it
    running,          \* AgentManager.running
    executing,        \* the task execute_task is in the middle of, or 0
    \* ---- the communication protocol (communication_protocol.py) ----
    message_queue,    \* CommunicationProtocol.message_queue (message_history holds
                      \* the same dicts), each with the times it met a handler
    agent_subscriptions, \* the insertion-ordered dict, as a sequence of entries
    lastProcess,      \* the process_messages call that has just returned
    \* ---- the data pipeline (data_pipeline.py) ----
    data_stages,      \* DataPipeline.data_stages: stage -> the keys of its dict
    processing_history \* DataPipeline.processing_history, the stage of each entry

graphVars == <<runStatus, stageState, raises, state, triggered, pending, dispatched>>
storeVars == <<api_cache, written, lastGet, lastClear>>
adapterVars == <<collector_cache, api_keys, request_counts, last_request_time, lastCall>>
keyVars   == <<kpc, kreq, kparams2, kkeys>>
concVars  == <<cache_rows, conn, setLog, lastStmt>>
scraperVars == <<web_cache, lastFetch>>
engineVars == <<workflows, agent_registry, active_workflows, workflow_history, lastRun>>
geoVars   == <<geocode_cache, obtained, lastGeo>>
managerVars == <<tasks, task_queue, running, executing>>
commVars  == <<message_queue, agent_subscriptions, lastProcess>>
pipelineVars == <<data_stages, processing_history>>
lateVars  == <<lastTravel, geoVars, managerVars, commVars, pipelineVars>>
moreVars  == <<concVars, scraperVars, released, engineVars, lateVars>>
nonConcVars ==
    <<graphVars, keyVars, storeVars, adapterVars, scraperVars, released, engineVars, lateVars>>
nonScraperVars ==
    <<graphVars, keyVars, storeVars, adapterVars, concVars, released, engineVars, lateVars>>
nonEngineVars ==
    <<graphVars, keyVars, storeVars, adapterVars, concVars, released, scraperVars, lateVars>>
vars      == <<graphVars, now, storeVars, adapterVars, keyVars, moreVars>>
nonGraphVars == <<now, storeVars, adapterVars, keyVars, moreVars>>
nonKeyVars == <<graphVars, now, storeVars, adapterVars, moreVars>>
earlyVars ==
    <<graphVars, now, storeVars, adapterVars, keyVars, concVars, scraperVars, released,
      engineVars>>
nonTravelVars == <<earlyVars, geoVars, managerVars, commVars, pipelineVars>>
nonGeoVars == <<earlyVars, lastTravel, managerVars, commVars, pipelineVars>>
nonManagerVars == <<earlyVars, lastTravel, geoVars, commVars, pipelineVars>>
nonCommVars == <<earlyVars, lastTravel, geoVars, managerVars, pipelineVars>>
nonPipelineVars == <<earlyVars, lastTravel, geoVars, managerVars, commVars>>

(***************************************************************************)
(* The workflow graph built by build_travel_workflow_graph                 *)
(***************************************************************************)

\* graph.add_node(...)
Stages ==
    {"api_collector", "web_scraper", "data_processor", "recommendation",
     "sentiment_analyzer", "similarity_engine", "price_predictor",
     "planner", "researcher", "analytics_engine"}

\* graph.set_entry_point("api_collector")
EntryPoint == "api_collector"

\* The edges with planner wired to data_processor as well.
EdgesShortcut ==
    {<<"api_collector", "web_scraper">>,
     <<"web_scraper", "data_processor">>,
     <<"data_processor", "recommendation">>,
     <<"data_processor", "sentiment_analyzer">>,
     <<"data_processor", "similarity_engine">>,
     <<"data_processor", "price_predictor">>,
     <<"data_processor", "planner">>,
     <<"recommendation", "planner">>,
     <<"sentiment_analyzer", "planner">>,
     <<"similarity_engine", "planner">>,
     <<"price_predictor", "planner">>,
     <<"planner", "researcher">>,
     <<"researcher", "analytics_engine">>}

\* graph.add_edge(a, b), END left out
Edges ==
    {<<"api_collector", "web_scraper">>,
     <<"web_scraper", "data_processor">>,
     <<"data_processor", "recommendation">>,
     <<"data_processor", "sentiment_analyzer">>,
     <<"data_processor", "similarity_engine">>,
     <<"data_processor", "price_predictor">>,
     <<"recommendation", "planner">>,
     <<"sentiment_analyzer", "planner">>,
     <<"similarity_engine", "planner">>,
     <<"price_predictor", "planner">>,
     <<"planner", "researcher">>,
     <<"researcher", "analytics_engine">>}

\* graph.add_edge("analytics_engine", END)
Sink == "analytics_engine"

Upstream(s) == {p \in Stages : <<p, s>> \in Edges}
Downstream(S) == {s \in Stages : \E p \in S : <<p, s>> \in Edges}

ParallelStages ==
    {"recommendation", "sentiment_analyzer", "similarity_engine", "price_predictor"}

\* TravelState: the input parameters,
InputFields == {"destination", "budget", "days", "travelers"}

\* the field each node assigns on its success path,
OutputField(s) ==
    CASE s = "api_collector"      -> "collected_data"
      [] s = "web_scraper"        -> "scraped_data"
      [] s = "data_processor"     -> "processed_data"
      [] s = "recommendation"     -> "recommendations"
      [] s = "sentiment_analyzer" -> "sentiment_analysis"
      [] s = "similarity_engine"  -> "similarity_results"
      [] s = "price_predictor"    -> "price_predictions"
      [] s = "planner"            -> "travel_plan"
      [] s = "researcher"         -> "research_insights"
      [] s = "analytics_engine"   -> "analytics_results"

\* and the execution tracking fields.  None of the fields is declared with a
\* reducer (Annotated[...]): each holds one value per superstep.
TrackingFields == {"steps_completed", "errors"}

\* A TravelState dict: the keys it holds and the two tracking lists
\* (state.get(key, []) reads an absent list as []).  An errors entry is
\* identified by the stage whose except clause formatted it.
EmptyState == [keys |-> {}, steps_completed |-> <<>>, errors |-> <<>>]

\* _mark_step(step_name)(state)
mark_step(step_name, st) ==
    [st EXCEPT !.steps_completed = Append(st.steps_completed, step_name),
               !.keys = st.keys \cup {"steps_completed"}]

\* The except clause shared by the ten nodes:
\*   errors = list(state.get("errors", [])); errors.append(...); state["errors"] = errors
record_error(s, st) ==
    [st EXCEPT !.errors = Append(st.errors, s),
               !.keys = st.keys \cup {"errors"}]

\* A node function (_api_collector_node .. _analytics_engine_node) applied to
\* the dict it was handed: it assigns its output field and marks its step, or
\* records its error, and returns the whole dict.
stage_node(s, st, raised) ==
    IF raised
    THEN record_error(s, st)
    ELSE mark_step(s, [st EXCEPT !.keys = st.keys \cup {OutputField(s)}])

\* The state a run starts from: the caller's input, with or without the
\* tracking lists set to [].
InitialStates ==
    {[keys |-> InputFields \cup t, steps_completed |-> <<>>, errors |-> <<>>] :
        t \in {{}, TrackingFields}}

GraphInit ==
    /\ runStatus = "Pending"
    /\ stageState = [s \in Stages |-> "Waiting"]
    /\ raises \in SUBSET Stages
    /\ state \in InitialStates
    /\ triggered = {}
    /\ pending = <<>>
    /\ dispatched = [s \in Stages |-> 0]

GraphIdle ==
    /\ runStatus = "Pending"
    /\ stageState = [s \in Stages |-> "Waiting"]
    /\ raises = {}
    /\ state = EmptyState
    /\ triggered = {}
    /\ pending = <<>>
    /\ dispatched = [s \in Stages |-> 0]

\* The compiled graph is run by the LangGraph executor (graph.compile()), in
\* supersteps: the nodes of a superstep run concurrently, each on its own copy
\* of the state, and the dicts they return are written to the state when all
\* of them have returned; the next superstep holds the targets of their edges.
\* A field of TravelState that is written by one node in a superstep takes
\* the value written.  For a field written by several nodes of one superstep
\* two outcomes are modelled: the writes are merged, the last writer in
\* completion order winning (ApplyStep), and the superstep is rejected
\* because the field has no reducer (RejectStep).

\* compiled_graph.invoke(input): the first superstep holds the entry point.
Invoke ==
    /\ runStatus = "Pending"
    /\ runStatus' = "Running"
    /\ triggered' = {EntryPoint}
    /\ UNCHANGED <<stageState, raises, state, pending, dispatched>>
    /\ UNCHANGED nonGraphVars

\* The executor starts a node of the current superstep on a snapshot of the state.
Dispatch(s) ==
    /\ runStatus = "Running"
    /\ s \in triggered
    /\ triggered' = triggered \ {s}
    /\ stageState' = [stageState EXCEPT ![s] = "Running"]
    /\ dispatched' = [dispatched EXCEPT ![s] = @ + 1]
    /\ UNCHANGED <<runStatus, raises, state, pending>>
    /\ UNCHANGED nonGraphVars

\* A running node returns.  The shared state does not change while a
\* superstep runs, so the node's snapshot is the current shared state.
Finish(s) ==
    /\ stageState[s] = "Running"
    /\ stageState' = [stageState EXCEPT ![s] = IF s \in raises THEN "Errored" ELSE "Done"]
    /\ pending' = Append(pending, [stage |-> s, ret |-> stage_node(s, state, s \in raises)])
    /\ UNCHANGED <<runStatus, raises, state, triggered, dispatched>>
    /\ UNCHANGED nonGraphVars

\* Last-writer-wins per field, the writers taken in completion order.
RECURSIVE MergeUpdates(_, _)
MergeUpdates(st, ups) ==
    IF ups = <<>> THEN st
    ELSE LET u == Head(ups).ret
             merged ==
                 [keys |-> st.keys \cup u.keys,
                  steps_completed |->
                      IF "steps_completed" \in u.keys THEN u.steps_completed
                      ELSE st.steps_completed,
                  errors |-> IF "errors" \in u.keys THEN u.errors ELSE st.errors]
         IN MergeUpdates(merged, Tail(ups))

\* Two nodes of one superstep returned a value for the same field.
ConcurrentUpdate(ups) ==
    \E i, j \in 1..Len(ups) : i # j /\ ups[i].ret.keys \cap ups[j].ret.keys # {}

StepStages(ups) == {ups[i].stage : i \in 1..Len(ups)}

\* The stages the next superstep holds: the targets of the edges that leave
\* the nodes of the superstep that just ended.
NextTriggered(ups) == Downstream(StepStages(ups))

SuperstepEnded ==
    /\ runStatus = "Running"
    /\ triggered = {}
    /\ \A s \in Stages : stageState[s] # "Running"
    /\ pending # <<>>

\* End of a superstep: the returned dicts are written to the state, and the
\* next superstep is scheduled; the run completes after the edge to END.
ApplyStep ==
    /\ SuperstepEnded
    /\ state' = MergeUpdates(state, pending)
    /\ pending' = <<>>
    /\ triggered' = NextTriggered(pending)
    /\ runStatus' = IF NextTriggered(pending) = {} THEN "Completed" ELSE "Running"
    /\ UNCHANGED <<stageState, raises, dispatched>>
    /\ UNCHANGED nonGraphVars

\* End of a superstep in which a field without a reducer received more than
\* one value: the executor raises InvalidUpdateError out of invoke().
RejectStep ==
    /\ SuperstepEnded
    /\ ConcurrentUpdate(pending)
    /\ runStatus' = "Failed"
    /\ pending' = <<>>
    /\ UNCHANGED <<stageState, raises, state, triggered, dispatched>>
    /\ UNCHANGED nonGraphVars

GraphNext ==
    \/ Invoke
    \/ \E s \in Stages : Dispatch(s)
    \/ \E s \in Stages : Finish(s)
    \/ ApplyStep
    \/ RejectStep


(***************************************************************************)
(* Cache keys: APICollector._generate_cache_key                            *)
(***************************************************************************)

MaxParams == 3

ParamKeys == {"a", "b", "c"}
ParamValues == {"1", "2"}
KeyApiNames == {"google_places", "openweather"}
Endpoints == {"textsearch/json", "weather"}

\* str < str on the parameter names
KeyRank(k) == CASE k = "a" -> 1 [] k = "b" -> 2 [] k = "c" -> 3

\* A Python dict: its items in insertion order, no key twice.
Dicts ==
    {d \in UNION {[1..n -> ParamKeys \X ParamValues] : n \in 0..MaxParams} :
        \A i, j \in DOMAIN d : i # j => d[i][1] # d[j][1]}

Items(d) == {d[i] : i \in DOMAIN d}

\* sort_keys=True: the items ordered by key
RECURSIVE SortItems(_)
SortItems(items) ==
    IF items = {} THEN <<>>
    ELSE LET first == CHOOSE x \in items : \A y \in items : KeyRank(x[1]) <= KeyRank(y[1])
         IN <<first>> \o SortItems(items \ {first})

RECURSIVE DumpItems(_)
DumpItems(seq) ==
    IF seq = <<>> THEN <<>>
    ELSE <<seq[1][1], ":", seq[1][2]>>
         \o (IF Len(seq) > 1 THEN <<",">> ELSE <<>>) \o DumpItems(Tail(seq))

\* json.dumps(d, sort_keys=sort_keys): the text as a sequence of tokens
json_dumps(d, sort_keys) ==
    <<"{">> \o DumpItems(IF sort_keys THEN SortItems(Items(d)) ELSE d) \o <<"}">>

\* json.loads(text), for a text json.dumps wrote
json_loads(text) ==
    LET n == IF Len(text) = 2 THEN 0 ELSE (Len(text) - 1) \div 4
    IN [i \in 1..n |-> <<text[4 * i - 2], text[4 * i]>>]

TokenCode(tok) ==
    CASE tok = "{" -> 1 [] tok = "}" -> 2 [] tok = ":" -> 3 [] tok = "," -> 4
      [] tok = "a" -> 5 [] tok = "b" -> 6 [] tok = "c" -> 7
      [] tok = "1" -> 8 [] tok = "2" -> 9
      [] tok = "google_places" -> 10 [] tok = "openweather" -> 11
      [] tok = "textsearch/json" -> 12 [] tok = "weather" -> 13

\* hashlib.md5(text.encode()).hexdigest(): a digest of the text, of smaller width
RECURSIVE Digest(_, _)
Digest(h, text) ==
    IF text = <<>> THEN h
    ELSE Digest((h * 31 + TokenCode(Head(text))) % 1000003, Tail(text))

md5(text) == Digest(7, text)

\* The key built without sort_keys.
generate_cache_key_unsorted(api_name, endpoint, params) ==
    md5(<<api_name, ":", endpoint, ":">> \o json_dumps(params, FALSE))

\* key_string = f"{api_name}:{endpoint}:{json.dumps(params, sort_keys=True)}"
generate_cache_key(api_name, endpoint, params) ==
    md5(<<api_name, ":", endpoint, ":">> \o json_dumps(params, TRUE))

KeyInit ==
    /\ kpc = "drawn"
    /\ kreq \in [api_name : KeyApiNames, endpoint : Endpoints, params : Dicts]
    /\ kparams2 = <<>>
    /\ kkeys = <<0, 0>>

KeyIdle ==
    /\ kpc = "idle"
    /\ kreq = [api_name |-> "google_places", endpoint |-> "weather", params |-> <<>>]
    /\ kparams2 = <<>>
    /\ kkeys = <<0, 0>>

\* A second parameter mapping is built for the same api and endpoint.
BuildSecond ==
    /\ kpc = "drawn"
    /\ kparams2' \in Dicts
    /\ kpc' = "built"
    /\ UNCHANGED <<kreq, kkeys>>
    /\ UNCHANGED nonKeyVars

\* _generate_cache_key is called with each mapping.
GenerateKeys ==
    /\ kpc = "built"
    /\ kkeys' = <<generate_cache_key(kreq.api_name, kreq.endpoint, kreq.params),
                  generate_cache_key(kreq.api_name, kreq.endpoint, kparams2)>>
    /\ kpc' = "generated"
    /\ UNCHANGED <<kreq, kparams2>>
    /\ UNCHANGED nonKeyVars

KeyNext == BuildSecond \/ GenerateKeys


(***************************************************************************)
(* Time and values                                                         *)
(***************************************************************************)

MaxNow == 4
TicksPerHour == 2
MaxCacheHours == 1
MaxHits == 2

\* timedelta(hours=h), in ticks
timedelta_hours(h) == h * TicksPerHour

\* What a lookup returns: None, or a value.
None == [none |-> TRUE, value |-> <<>>]
Some(v) == [none |-> FALSE, value |-> v]

\* Python truth value of a returned dict: None and {} are falsy.
Truthy(r) == ~r.none /\ r.value # <<>>

\* The response bodies of the model.
ResponseValues == {<<>>, <<<<"a", "1">>>>, <<<<"b", "2">>, <<"a", "1">>>>}

\* A row of an api_cache table, and the absence of one.
NoRow ==
    [present |-> FALSE, response_data |-> <<>>, created_at |-> 0, expires_at |-> 0,
     hit_count |-> 0]

\* Time passes.
Tick ==
    /\ now < MaxNow
    /\ now' = now + 1
    /\ lastGet' = [valid |-> FALSE, key |-> "k1", ret |-> None]
    /\ lastCall' = [valid |-> FALSE, hadEntry |-> FALSE, stored |-> None, ret |-> None,
                    remote |-> FALSE, outcome |-> "ok", raised |-> FALSE]
    /\ lastClear' = [valid |-> FALSE, before |-> [k \in {"k1", "k2"} |-> NoRow],
                     api_deleted |-> 0]
    /\ UNCHANGED <<graphVars, keyVars, moreVars, api_cache, written, collector_cache, api_keys,
                   request_counts, last_request_time>>

(***************************************************************************)
(* DualDatabaseManager: the api_cache table of cache.db                    *)
(***************************************************************************)

StoreKeys == {"k1", "k2"}
CacheHours == 0..MaxCacheHours

NoGet == [valid |-> FALSE, key |-> "k1", ret |-> None]
NotWritten == [set |-> FALSE, value |-> <<>>, time |-> 0, cache_hours |-> 0]
NoClear == [valid |-> FALSE, before |-> [k \in StoreKeys |-> NoRow], api_deleted |-> 0]

StoreInit ==
    /\ now = 0
    /\ api_cache = [k \in StoreKeys |-> NoRow]
    /\ written = [k \in StoreKeys |-> NotWritten]
    /\ lastGet = NoGet
    /\ lastClear = NoClear

StoreIdle ==
    /\ api_cache = [k \in StoreKeys |-> NoRow]
    /\ written = [k \in StoreKeys |-> NotWritten]
    /\ lastGet = NoGet
    /\ lastClear = NoClear

\* The selection with expires_at >= ? in place of expires_at > ?.
SelectUnexpiredInclusive(table, cache_key, t) ==
    table[cache_key].present /\ table[cache_key].expires_at >= t

\* SELECT ... WHERE cache_key = ? AND expires_at > ?  with datetime.now()
SelectUnexpired(table, cache_key, t) ==
    table[cache_key].present /\ table[cache_key].expires_at > t

\* get_api_cache(cache_key)
get_api_cache(cache_key) ==
    /\ IF SelectUnexpired(api_cache, cache_key, now)
       THEN /\ api_cache[cache_key].hit_count < MaxHits
            /\ api_cache' = [api_cache EXCEPT ![cache_key].hit_count = @ + 1]
            /\ lastGet' = [valid |-> TRUE, key |-> cache_key,
                           ret |-> Some(json_loads(api_cache[cache_key].response_data))]
       ELSE /\ api_cache' = api_cache
            /\ lastGet' = [valid |-> TRUE, key |-> cache_key, ret |-> None]
    /\ lastClear' = NoClear
    /\ UNCHANGED <<graphVars, keyVars, moreVars, adapterVars, now, written>>

\* INSERT OR REPLACE INTO api_cache (..., response_data, expires_at, created_at):
\* the row of the key is replaced, hit_count takes its default.
InsertOrReplace(table, cache_key, response_data, created_at, expires_at) ==
    [table EXCEPT ![cache_key] =
        [present |-> TRUE, response_data |-> json_dumps(response_data, FALSE),
         created_at |-> created_at, expires_at |-> expires_at, hit_count |-> 0]]

\* set_api_cache(cache_key, api_name, endpoint, params, response_data, cache_hours)
set_api_cache(cache_key, response_data, cache_hours) ==
    /\ api_cache' = InsertOrReplace(api_cache, cache_key, response_data, now,
                                    now + timedelta_hours(cache_hours))
    /\ written' = [written EXCEPT ![cache_key] =
                      [set |-> TRUE, value |-> response_data, time |-> now,
                       cache_hours |-> cache_hours]]
    /\ lastGet' = NoGet
    /\ lastClear' = NoClear
    /\ UNCHANGED <<graphVars, keyVars, moreVars, adapterVars, now>>

\* DELETE FROM api_cache WHERE expires_at < ?  with datetime.now()
DeleteExpired(table, t) ==
    [k \in DOMAIN table |->
        IF table[k].present /\ table[k].expires_at < t THEN NoRow ELSE table[k]]

\* cursor.rowcount after the DELETE: the rows the statement removed
rowcount(table, after) ==
    Cardinality({k \in DOMAIN table : table[k].present /\ ~after[k].present})

\* clear_expired_cache(), returning {'api_deleted': ...}
clear_expired_cache ==
    /\ api_cache' = DeleteExpired(api_cache, now)
    /\ written' = [k \in StoreKeys |->
                      IF DeleteExpired(api_cache, now)[k].present THEN written[k]
                      ELSE NotWritten]
    /\ lastGet' = NoGet
    /\ lastClear' = [valid |-> TRUE, before |-> api_cache,
                     api_deleted |-> rowcount(api_cache, DeleteExpired(api_cache, now))]
    /\ UNCHANGED <<graphVars, keyVars, moreVars, adapterVars, now>>

\* clear_all_cache()
clear_all_cache ==
    /\ api_cache' = [k \in StoreKeys |-> NoRow]
    /\ written' = [k \in StoreKeys |-> NotWritten]
    /\ lastGet' = NoGet
    /\ lastClear' = NoClear
    /\ UNCHANGED <<graphVars, keyVars, moreVars, adapterVars, now>>

StoreNext ==
    \/ Tick
    \/ \E k \in StoreKeys : get_api_cache(k)
    \/ \E k \in StoreKeys, v \in ResponseValues, h \in CacheHours : set_api_cache(k, v, h)
    \/ clear_expired_cache
    \/ clear_all_cache


(***************************************************************************)
(* DualDatabaseManager called from several threads: every call opens its   *)
(* own connection, every SQL statement is one step                         *)
(***************************************************************************)

Threads == {"t1", "t2"}
ConcKeys == {"k1"}
ConcValues == {<<>>, <<<<"a", "1">>>>}

\* A connection holds the response_data its SELECT fetched; the model keeps
\* the key, the expires_at of the fetched row and the time of the SELECT too.
IdleConn == [pc |-> "idle", key |-> "k1", response_data |-> <<>>, expires_at |-> 0, at |-> 0]
NoStmt ==
    [op |-> "none", key |-> "k1", ret |-> None, expires_at |-> 0, at |-> 0,
     replaced |-> FALSE, hadHits |-> FALSE, value |-> <<>>, hours |-> 0]

ConcInit ==
    /\ now = 0
    /\ cache_rows = {}
    /\ conn = [t \in Threads |-> IdleConn]
    /\ setLog = {}
    /\ lastStmt = NoStmt

ConcIdle ==
    /\ cache_rows = {}
    /\ conn = [t \in Threads |-> IdleConn]
    /\ setLog = {}
    /\ lastStmt = NoStmt

\* INSERT INTO a table without the key constraint: the old row stays.
InsertRow(table, row) == table \cup {row}

\* INSERT OR REPLACE INTO api_cache, cache_key TEXT PRIMARY KEY: the rows of
\* the key are deleted, the new row is inserted.
InsertOrReplaceRow(table, row) ==
    {r \in table : r.cache_key # row.cache_key} \cup {row}

\* The rows found with expires_at >= ? in place of expires_at > ?.
SelectRowsInclusive(table, cache_key, t) ==
    {r \in table : r.cache_key = cache_key /\ r.expires_at >= t}

\* The rows SELECT ... WHERE cache_key = ? AND expires_at > ? finds.
SelectRows(table, cache_key, t) ==
    {r \in table : r.cache_key = cache_key /\ r.expires_at > t}

\* get_api_cache, first statement: the SELECT and cursor.fetchone(); without
\* a row the call returns None.
GetSelect(t, cache_key) ==
    /\ conn[t].pc = "idle"
    /\ IF SelectRows(cache_rows, cache_key, now) # {}
       THEN /\ \E r \in SelectRows(cache_rows, cache_key, now) :
                  conn' = [conn EXCEPT ![t] =
                              [pc |-> "selected", key |-> cache_key,
                               response_data |-> r.response_data,
                               expires_at |-> r.expires_at, at |-> now]]
            /\ UNCHANGED lastStmt
       ELSE /\ lastStmt' = [NoStmt EXCEPT !.op = "get", !.key = cache_key, !.at = now]
            /\ UNCHANGED conn
    /\ UNCHANGED <<cache_rows, setLog>>
    /\ UNCHANGED <<nonConcVars, now>>

\* get_api_cache, second statement: UPDATE ... SET hit_count = hit_count + 1
\* WHERE cache_key = ?, commit, and return json.loads(result[0]).
GetUpdate(t) ==
    /\ conn[t].pc = "selected"
    /\ \A r \in cache_rows : r.cache_key = conn[t].key => r.hit_count < MaxHits
    /\ cache_rows' = {IF r.cache_key = conn[t].key
                      THEN [r EXCEPT !.hit_count = @ + 1] ELSE r : r \in cache_rows}
    /\ lastStmt' = [NoStmt EXCEPT !.op = "get", !.key = conn[t].key,
                                  !.ret = Some(json_loads(conn[t].response_data)),
                                  !.expires_at = conn[t].expires_at, !.at = conn[t].at]
    /\ conn' = [conn EXCEPT ![t] = IdleConn]
    /\ UNCHANGED setLog
    /\ UNCHANGED <<nonConcVars, now>>

\* set_api_cache: the INSERT OR REPLACE and the commit.
SetInsert(t, cache_key, response_data, cache_hours) ==
    /\ conn[t].pc = "idle"
    /\ cache_rows' = InsertOrReplaceRow(cache_rows,
                        [cache_key |-> cache_key,
                         response_data |-> json_dumps(response_data, FALSE),
                         created_at |-> now,
                         expires_at |-> now + timedelta_hours(cache_hours),
                         hit_count |-> 0])
    /\ setLog' = setLog \cup {<<cache_key, response_data>>}
    /\ lastStmt' = [NoStmt EXCEPT !.op = "set", !.key = cache_key, !.at = now,
                                  !.replaced = \E r \in cache_rows : r.cache_key = cache_key,
                                  !.hadHits = \E r \in cache_rows :
                                                  r.cache_key = cache_key /\ r.hit_count > 0,
                                  !.value = response_data, !.hours = cache_hours]
    /\ UNCHANGED conn
    /\ UNCHANGED <<nonConcVars, now>>

\* clear_expired_cache: DELETE FROM api_cache WHERE expires_at < ? and the commit.
EvictDelete(t) ==
    /\ conn[t].pc = "idle"
    /\ cache_rows' = {r \in cache_rows : ~(r.expires_at < now)}
    /\ lastStmt' = [NoStmt EXCEPT !.op = "evict", !.at = now]
    /\ UNCHANGED <<conn, setLog>>
    /\ UNCHANGED <<nonConcVars, now>>

ConcNext ==
    \/ Tick
    \/ \E t \in Threads, k \in ConcKeys : GetSelect(t, k)
    \/ \E t \in Threads : GetUpdate(t)
    \/ \E t \in Threads, k \in ConcKeys, v \in ConcValues, h \in CacheHours :
          SetInsert(t, k, v, h)
    \/ \E t \in Threads : EvictDelete(t)


(***************************************************************************)
(* APICollector: _make_api_request over its own api_cache table            *)
(***************************************************************************)

\* rate_limits['google_places']['requests_per_second']
GooglePlacesPerSecond == 10

AdapterApis == {"google_places"}

requests_per_second(api_name) == GooglePlacesPerSecond

\* The request of the model: api name, endpoint and parameters.
Requests ==
    {[api_name |-> "google_places", endpoint |-> "textsearch/json",
      params |-> <<<<"a", "1">>>>]}

\* cache_key = self._generate_cache_key(api_name, endpoint, params), per request
CacheKeys == [req \in Requests |-> generate_cache_key(req.api_name, req.endpoint, req.params)]

CacheKeyOf(req) == CacheKeys[req]

AdapterKeys == {CacheKeys[req] : req \in Requests}

\* cache_duration_hours of the model's calls
DurationHours == 1..MaxCacheHours

NoCall ==
    [valid |-> FALSE, hadEntry |-> FALSE, stored |-> None, ret |-> None, remote |-> FALSE,
     outcome |-> "ok", raised |-> FALSE]

\* What the calls made by one adapter call do: all succeed, or the remote
\* request raises RequestException, or the cache read raises sqlite3.Error,
\* or the cache write does.
CallOutcomes == {"ok", "request_fails", "read_fails", "write_fails"}

AdapterInit ==
    /\ now = 0
    /\ collector_cache = [k \in AdapterKeys |-> NoRow]
    /\ api_keys \in SUBSET AdapterApis
    /\ request_counts = [a \in AdapterApis |-> 0]
    /\ last_request_time = [a \in AdapterApis |-> 0]
    /\ lastCall = NoCall

AdapterIdle ==
    /\ collector_cache = [k \in AdapterKeys |-> NoRow]
    /\ api_keys = {}
    /\ request_counts = [a \in AdapterApis |-> 0]
    /\ last_request_time = [a \in AdapterApis |-> 0]
    /\ lastCall = NoCall

\* APICollector(): a node builds a new collector; the cache file stays.
NewCollector ==
    /\ api_keys' \in SUBSET AdapterApis
    /\ request_counts' = [a \in AdapterApis |-> 0]
    /\ last_request_time' = [a \in AdapterApis |-> now]
    /\ lastCall' = NoCall
    /\ UNCHANGED <<graphVars, keyVars, moreVars, storeVars, now, collector_cache>>

\* _get_cached_response(cache_key)
get_cached_response(cache_key) ==
    IF SelectUnexpired(collector_cache, cache_key, now)
    THEN Some(json_loads(collector_cache[cache_key].response_data))
    ELSE None

\* _rate_limit_check(api_name): the counter and the time it leaves behind, and
\* the time it slept.  A tick is one second.
rate_limit_check(api_name) ==
    LET time_diff == now - last_request_time[api_name]
        reset == IF time_diff >= 1 THEN 0 ELSE request_counts[api_name]
        sleep_time == IF reset >= requests_per_second(api_name) /\ 1 - time_diff > 0
                      THEN 1 - time_diff ELSE 0
        count == IF sleep_time > 0 THEN 0 ELSE reset
    IN [count |-> count + 1, last |-> now, slept |-> sleep_time]

\* `if cached_response:` decides whether the cached value is returned.
CacheHit(cached) == Truthy(cached)

\* The request as if requests.get and raise_for_status never raised.
request_never_raises(outcome) == FALSE

\* requests.get(...) or response.raise_for_status() raises RequestException:
\* a network error or an HTTP error status.
request_raises(outcome) == outcome = "request_fails"

\* _make_api_request(api_name, endpoint, params, cache_duration_hours); a
\* RequestException is caught by the call, a sqlite3.Error is caught nowhere.
make_api_request(req, cache_duration_hours, outcome, body) ==
    LET cache_key == CacheKeyOf(req)
        cached == get_cached_response(cache_key)
        hadEntry == collector_cache[cache_key].present
                        /\ now < collector_cache[cache_key].expires_at
        stored == IF hadEntry
                  THEN Some(json_loads(collector_cache[cache_key].response_data))
                  ELSE None
        rl == rate_limit_check(req.api_name)
        after == now + rl.slept
        call == [NoCall EXCEPT !.valid = TRUE, !.hadEntry = hadEntry, !.stored = stored,
                               !.outcome = outcome]
    IN IF outcome = "read_fails"
       THEN /\ lastCall' = [call EXCEPT !.raised = TRUE]
            /\ UNCHANGED <<now, collector_cache, request_counts, last_request_time>>
       ELSE IF CacheHit(cached)
       THEN /\ lastCall' = [call EXCEPT !.ret = cached]
            /\ UNCHANGED <<now, collector_cache, request_counts, last_request_time>>
       ELSE /\ after <= MaxNow
            /\ now' = after
            /\ request_counts' = [request_counts EXCEPT ![req.api_name] = rl.count]
            /\ last_request_time' = [last_request_time EXCEPT ![req.api_name] = rl.last]
            /\ IF req.api_name \notin api_keys
               THEN /\ lastCall' = call
                    /\ UNCHANGED collector_cache
               ELSE IF request_raises(outcome)
               THEN /\ lastCall' = [call EXCEPT !.remote = TRUE]
                    /\ UNCHANGED collector_cache
               ELSE IF outcome = "write_fails"
               THEN /\ lastCall' = [call EXCEPT !.remote = TRUE, !.raised = TRUE]
                    /\ UNCHANGED collector_cache
               ELSE /\ collector_cache' =
                          InsertOrReplace(collector_cache, cache_key, body, after,
                                          after + timedelta_hours(cache_duration_hours))
                    /\ lastCall' = [call EXCEPT !.remote = TRUE, !.ret = Some(body)]

CallApi ==
    /\ \E req \in Requests, h \in DurationHours, outcome \in CallOutcomes,
          body \in ResponseValues :
          make_api_request(req, h, outcome, body)
    /\ lastGet' = NoGet
    /\ lastClear' = NoClear
    /\ UNCHANGED <<graphVars, keyVars, moreVars, api_cache, written, api_keys>>

AdapterNext ==
    \/ Tick
    \/ NewCollector
    \/ CallApi

RateIdle == released = [t \in 0..MaxNow |-> 0]

\* A call of _rate_limit_check(api_name) on one collector: it returns, after
\* its sleep if it sleeps, and the caller goes on to make its request.
RateLimitCheck(api_name) ==
    LET rl == rate_limit_check(api_name)
        after == now + rl.slept
    IN /\ after <= MaxNow
       /\ now' = after
       /\ request_counts' = [request_counts EXCEPT ![api_name] = rl.count]
       /\ last_request_time' = [last_request_time EXCEPT ![api_name] = rl.last]
       /\ released' = [released EXCEPT ![after] = @ + 1]
       /\ UNCHANGED <<graphVars, keyVars, storeVars, concVars, scraperVars, engineVars, lateVars,
                      collector_cache, api_keys, lastCall>>

RateNext ==
    \/ Tick
    \/ \E a \in AdapterApis : RateLimitCheck(a)

(***************************************************************************)
(* WebScraper: _make_request over its web_cache table                      *)
(***************************************************************************)

\* self.max_retries
max_retries == 3

Urls == {"u1", "u2"}
Contents == {"", "page 1", "page 2"}

\* How many of the attempts of a call fail, counted from the first one;
\* max_retries + 1 and above: every attempt the call makes fails.
Failures == 0..(max_retries + 2)

NoPage == [present |-> FALSE, content |-> "", created_at |-> 0, expires_at |-> 0]
NoFetch ==
    [valid |-> FALSE, hit |-> FALSE, fails |-> 0, attempts |-> 0, sleeps |-> <<>>,
     ret |-> None]

ScraperInit ==
    /\ now = 0
    /\ web_cache = [u \in Urls |-> NoPage]
    /\ lastFetch = NoFetch

ScraperIdle ==
    /\ web_cache = [u \in Urls |-> NoPage]
    /\ lastFetch = NoFetch

\* _get_cached_content(cache_key)
get_cached_content(url) ==
    IF web_cache[url].present /\ web_cache[url].expires_at > now
    THEN Some(web_cache[url].content)
    ELSE None

\* time.sleep(retries + 1) in place of time.sleep(2 ** retries)
backoff_linear(retries) == retries + 1

\* time.sleep(2 ** retries)
backoff(retries) == 2 ^ retries

\* The try block of _make_request(url, retries, ...) on a cache miss, when the
\* next `fails` requests raise RequestException: the number of session.get
\* calls, the backoff sleeps and whether text is returned, through the
\* recursive calls.
RECURSIVE request_attempts(_, _)
request_attempts(retries, fails) ==
    IF fails = 0
    THEN [attempts |-> 1, sleeps |-> <<>>, ok |-> TRUE]
    ELSE IF retries < max_retries
    THEN LET rest == request_attempts(retries + 1, fails - 1)
         IN [attempts |-> 1 + rest.attempts,
             sleeps |-> <<backoff(retries)>> \o rest.sleeps,
             ok |-> rest.ok]
    ELSE [attempts |-> 1, sleeps |-> <<>>, ok |-> FALSE]

\* _make_request(url, 0, cache_duration_hours); text is the body the first
\* successful request returns.
make_request(url, cache_duration_hours, fails, text) ==
    LET cached == get_cached_content(url)
        r == request_attempts(0, fails)
        call == [NoFetch EXCEPT !.valid = TRUE, !.fails = fails]
    IN IF ~cached.none /\ cached.value # ""
       THEN /\ lastFetch' = [call EXCEPT !.hit = TRUE, !.ret = cached]
            /\ UNCHANGED web_cache
       ELSE IF r.ok
       THEN /\ web_cache' = [web_cache EXCEPT ![url] =
                                [present |-> TRUE, content |-> text, created_at |-> now,
                                 expires_at |-> now + timedelta_hours(cache_duration_hours)]]
            /\ lastFetch' = [call EXCEPT !.attempts = r.attempts, !.sleeps = r.sleeps,
                                         !.ret = Some(text)]
       ELSE /\ lastFetch' = [call EXCEPT !.attempts = r.attempts, !.sleeps = r.sleeps]
            /\ UNCHANGED web_cache

Fetch ==
    /\ \E url \in Urls, h \in DurationHours, fails \in Failures, text \in Contents :
          make_request(url, h, fails, text)
    /\ UNCHANGED <<nonScraperVars, now>>

\* Time passes between two calls of the scraper.
ScraperTick ==
    /\ now < MaxNow
    /\ now' = now + 1
    /\ lastFetch' = NoFetch
    /\ UNCHANGED <<nonScraperVars, web_cache>>

ScraperNext == ScraperTick \/ Fetch


(***************************************************************************)
(* WorkflowEngine: register_workflow, register_agent, execute_workflow     *)
(***************************************************************************)

MaxSteps == 3
MaxRuns == 2

\* The tasks assigned in a behaviour.
MaxTasks == 2

\* The messages sent in a behaviour.
MaxMessages == 2

\* The entries of the processing history in a behaviour.
MaxHistory == 3

WorkflowNames == {"travel"}
AgentNames == {"planner"}

\* The steps a configuration can list: agent calls of a registered or
\* unregistered agent name, an agent call whose "agent" is unhashable (a
\* list), a transform, a step of an unknown type, and a value that is not a
\* dict.
StepChoices ==
    {[dict |-> TRUE, type |-> "agent_call", agent |-> "planner"],
     [dict |-> TRUE, type |-> "agent_call", agent |-> "[unhashable]"],
     [dict |-> TRUE, type |-> "data_transform", agent |-> ""],
     [dict |-> TRUE, type |-> "teleport", agent |-> ""],
     [dict |-> FALSE, type |-> "", agent |-> ""]}

StepLists == UNION {[1..n -> StepChoices] : n \in 0..MaxSteps}

\* What register_workflow is given: a dict with a list of steps, or a value
\* without .get (None).
Configs == {[dict |-> TRUE, steps |-> l] : l \in StepLists}
               \cup {[dict |-> FALSE, steps |-> <<>>]}

Unregistered == [registered |-> FALSE, config |-> [dict |-> FALSE, steps |-> <<>>]]

ErrNone == [kind |-> "none", step |-> 0]
StepErr(i) == [kind |-> "step", step |-> i]
RunErr == [kind |-> "run", step |-> 0]

NoRun ==
    [valid |-> FALSE, name |-> "travel", input_ok |-> TRUE, deadline |-> 0,
     status |-> "none", attempted |-> <<>>, reported |-> {}, error |-> ErrNone]

EngineInit ==
    /\ now = 0
    /\ workflows = [n \in WorkflowNames |-> Unregistered]
    /\ agent_registry = {}
    /\ active_workflows = <<>>
    /\ workflow_history = <<>>
    /\ lastRun = NoRun

EngineIdle ==
    /\ workflows = [n \in WorkflowNames |-> Unregistered]
    /\ agent_registry = {}
    /\ active_workflows = <<>>
    /\ workflow_history = <<>>
    /\ lastRun = NoRun

\* register_workflow(name, workflow_config)
register_workflow(name, workflow_config) ==
    /\ workflows' = [workflows EXCEPT ![name] =
                        [registered |-> TRUE, config |-> workflow_config]]
    /\ lastRun' = NoRun
    /\ UNCHANGED <<agent_registry, active_workflows, workflow_history>>
    /\ UNCHANGED <<nonEngineVars, now>>

\* register_agent(agent_name, agent_instance)
register_agent(agent_name) ==
    /\ agent_registry' = agent_registry \cup {agent_name}
    /\ lastRun' = NoRun
    /\ UNCHANGED <<workflows, active_workflows, workflow_history>>
    /\ UNCHANGED <<nonEngineVars, now>>

\* The dict a step returns holds an "error" key: _execute_agent_step for an
\* unregistered agent, and the branch of an unknown step type.
ReturnsError(step) ==
    \/ step.type = "agent_call" /\ step.agent \notin agent_registry
    \/ step.type \notin {"agent_call", "data_transform", "condition"}

\* The step raises inside the try block: step.get on a value that is not a
\* dict, or `agent_name not in self.agent_registry` on an unhashable name.
Raises(step) ==
    \/ ~step.dict
    \/ step.type = "agent_call" /\ step.agent = "[unhashable]"

\* The loop of _execute_workflow_steps from step i on; d holds current_data's
\* "error", steps_completed, the steps begun, the steps that reported an
\* error, whether step_name is bound, and whether an exception left the loop.
RECURSIVE execute_steps(_, _, _)
execute_steps(steps, i, d) ==
    IF i > Len(steps) THEN d
    ELSE LET step == steps[i]
             begun == [d EXCEPT !.attempted = Append(@, i)]
         IN IF Raises(step)
            THEN IF ~step.dict /\ ~d.bound
                 THEN [begun EXCEPT !.escaped = TRUE]
                 ELSE [begun EXCEPT !.error = StepErr(i), !.reported = @ \cup {i}]
            ELSE IF ReturnsError(step)
            THEN execute_steps(steps, i + 1,
                     [begun EXCEPT !.bound = TRUE, !.error = StepErr(i),
                                   !.reported = @ \cup {i},
                                   !.steps_completed = Append(@, i)])
            ELSE execute_steps(steps, i + 1,
                     [begun EXCEPT !.bound = TRUE, !.steps_completed = Append(@, i)])

\* _execute_workflow_steps(workflow_id, config, input_data); config.get and
\* input_data.copy() raise on values that are not dicts.
execute_workflow_steps(config, input_ok) ==
    LET start == [error |-> ErrNone, steps_completed |-> <<>>, attempted |-> <<>>,
                  reported |-> {}, bound |-> FALSE, escaped |-> FALSE]
    IN IF ~config.dict \/ ~input_ok
       THEN [start EXCEPT !.escaped = TRUE]
       ELSE execute_steps(config.steps, 1, start)

\* execute_workflow(workflow_name, input_data).  deadline is the time, in step
\* durations, the caller's input_data allows the run; no statement reads it.
execute_workflow(workflow_name, input_ok, deadline) ==
    IF workflow_name \notin WorkflowNames \/ ~workflows[workflow_name].registered
    THEN /\ lastRun' = [NoRun EXCEPT !.valid = TRUE, !.name = workflow_name,
                                     !.input_ok = input_ok, !.deadline = deadline,
                                     !.error = RunErr]
         /\ UNCHANGED <<workflows, agent_registry, active_workflows, workflow_history>>
    ELSE LET workflow_id == <<workflow_name, now>>
             r == execute_workflow_steps(workflows[workflow_name].config, input_ok)
             status == IF r.escaped THEN "failed" ELSE "completed"
             error == IF r.escaped THEN RunErr ELSE r.error
         IN /\ active_workflows' =
                  [id \in DOMAIN active_workflows \cup {workflow_id} |->
                      IF id = workflow_id
                      THEN [status |-> status, steps_completed |-> r.steps_completed]
                      ELSE active_workflows[id]]
            /\ workflow_history' =
                  IF r.escaped THEN workflow_history
                  ELSE Append(workflow_history,
                              [workflow_id |-> workflow_id, status |-> "completed",
                               success |-> error = ErrNone])
            /\ lastRun' = [valid |-> TRUE, name |-> workflow_name, input_ok |-> input_ok,
                           deadline |-> deadline, status |-> status, attempted |-> r.attempted,
                           reported |-> r.reported, error |-> error]
            /\ UNCHANGED <<workflows, agent_registry>>

Execute ==
    /\ Len(workflow_history) < MaxRuns
    /\ Cardinality(DOMAIN active_workflows) < MaxRuns
    /\ \E name \in WorkflowNames \cup {"missing"}, input_ok \in BOOLEAN,
          deadline \in 0..MaxSteps :
          execute_workflow(name, input_ok, deadline)
    /\ UNCHANGED <<nonEngineVars, now>>

\* Time passes between two calls of the engine.
EngineTick ==
    /\ now < MaxNow
    /\ now' = now + 1
    /\ lastRun' = NoRun
    /\ UNCHANGED <<nonEngineVars, workflows, agent_registry, active_workflows,
                   workflow_history>>

\* Registrations come first: the model registers a name once.
Register ==
    \E name \in WorkflowNames, config \in Configs :
        ~workflows[name].registered /\ register_workflow(name, config)

EngineNext ==
    \/ EngineTick
    \/ Register
    \/ \E a \in AgentNames : register_agent(a)
    \/ Execute


(***************************************************************************)
(* The run entry point: run_travel_workflow                               *)
(***************************************************************************)

\* No call has returned.
NoTravel ==
    [valid |-> FALSE, destination |-> "", budget |-> [numeric |-> TRUE, value |-> 0],
     days |-> 0, travelers |-> 0, error |-> FALSE, steps_completed |-> <<>>,
     errors_encountered |-> 0, workflow_result |-> "none"]

\* run_travel_workflow(destination, budget, days, travelers, interests):
\* the body formats and multiplies the budget, which raises for a budget that
\* is not a number; otherwise it returns a result written out in the source.
\* It builds no graph and invokes none.
run_travel_workflow(destination, budget, days, travelers) ==
    /\ lastTravel' =
          IF ~budget.numeric
          THEN [NoTravel EXCEPT !.valid = TRUE, !.destination = destination,
                                !.budget = budget, !.days = days,
                                !.travelers = travelers, !.error = TRUE,
                                !.workflow_result = "Workflow execution failed"]
          ELSE [valid |-> TRUE, destination |-> destination, budget |-> budget,
                days |-> days, travelers |-> travelers, error |-> FALSE,
                steps_completed |->
                    <<"api_collector", "data_processor", "planner", "analytics_engine">>,
                errors_encountered |-> 0,
                workflow_result |-> "SUCCESS - Mock workflow completed"]
    /\ UNCHANGED nonTravelVars

\* The calls of app.py and chat_assistant_agent.py.  A budget is a number or
\* some other object (what the assistant extracted from the message).
RunTravel ==
    \E destination \in {"", "Hanoi", "Da Nang"},
       budget \in {[numeric |-> TRUE, value |-> v] : v \in -1..1}
                      \cup {[numeric |-> FALSE, value |-> 0]},
       days \in -1..1, travelers \in -1..1 :
        run_travel_workflow(destination, budget, days, travelers)


(***************************************************************************)
(* The geocode cache: GeocodingHelper                                      *)
(***************************************************************************)

\* Coordinates are in units of 0.00001 degree, so that rounding to 4 decimal
\* places is rounding to a multiple of 10 (no coordinate of the model is a tie).

\* The rounding with 3 decimal places in place of 4.
round3(x) == 100 * ((x + 50) \div 100)

\* round(lat, 4), round(lon, 4)
round4(x) == 10 * ((x + 5) \div 10)

\* The (lat, lon) primary keys of the model's rows.
GeoKeys == {0, 10} \X {0, 10}

\* _get_from_cache(lat, lon): <<>> for None, else the dict built from the row,
\* each field read as `row[i] or ''`.
get_from_cache(lat, lon) ==
    LET row == geocode_cache[<<round4(lat), round4(lon)>>]
    IN IF row = <<>> THEN <<>>
       ELSE <<[f \in DOMAIN row[1] |-> IF row[1][f] = "" THEN "" ELSE row[1][f]]>>

\* The call of the remote service and what follows it, shared by get_address
\* and get_detailed_info: response is <<>> (no results, or the request raised)
\* or <<info>>, which _save_to_cache stores with INSERT OR REPLACE on
\* PRIMARY KEY (lat, lon).  pair is the 4-decimal pair the call is about.
fetch(op, lat, lon, response) ==
    LET pair == <<10 * ((lat + 5) \div 10), 10 * ((lon + 5) \div 10)>>
    IN /\ geocode_cache' =
             IF response = <<>> THEN geocode_cache
             ELSE [geocode_cache EXCEPT ![<<round4(lat), round4(lon)>>] = response]
       /\ obtained' =
             IF response = <<>> THEN obtained
             ELSE [obtained EXCEPT ![pair] = IF op = "detailed" THEN response ELSE <<>>]
       /\ lastGeo' = [valid |-> TRUE, op |-> op, lat |-> lat, lon |-> lon,
                      prior |-> obtained[pair], ret |-> response, remote |-> TRUE]

\* get_detailed_info(lat, lon)
get_detailed_info(lat, lon, response) ==
    LET cached == get_from_cache(lat, lon)
        pair == <<10 * ((lat + 5) \div 10), 10 * ((lon + 5) \div 10)>>
    IN /\ IF cached # <<>>
          THEN /\ lastGeo' = [valid |-> TRUE, op |-> "detailed", lat |-> lat, lon |-> lon,
                              prior |-> obtained[pair], ret |-> cached, remote |-> FALSE]
               /\ UNCHANGED <<geocode_cache, obtained>>
          ELSE fetch("detailed", lat, lon, response)
       /\ UNCHANGED nonGeoVars

\* get_address(lat, lon): a cached row with no address part and no formatted
\* text is not used, and the service is asked again.
get_address(lat, lon, response) ==
    LET cached == get_from_cache(lat, lon)
        pair == <<10 * ((lat + 5) \div 10), 10 * ((lon + 5) \div 10)>>
        usable ==
            /\ cached # <<>>
            /\ \E f \in {"housenumber", "street", "suburb", "city", "formatted"} :
                  cached[1][f] # ""
    IN /\ IF usable
          THEN /\ lastGeo' = [valid |-> TRUE, op |-> "address", lat |-> lat, lon |-> lon,
                              prior |-> obtained[pair], ret |-> cached, remote |-> FALSE]
               /\ UNCHANGED <<geocode_cache, obtained>>
          ELSE fetch("address", lat, lon, response)
       /\ UNCHANGED nonGeoVars

\* The lookups of the model and the info dicts, of eight strings, the remote
\* service answers them with.
GeoNext ==
    \E lat \in {0, 4, 6, 14}, lon \in {0, 6},
       response \in
          {<<>>,
           <<[street |-> "Le Loi", housenumber |-> "1", suburb |-> "",
              district |-> "Quan 1", city |-> "HCM", state |-> "", postcode |-> "",
              formatted |-> "1 Le Loi, HCM"]>>,
           <<[street |-> "", housenumber |-> "", suburb |-> "", district |-> "Quan 3",
              city |-> "", state |-> "", postcode |-> "", formatted |-> ""]>>} :
        \/ get_detailed_info(lat, lon, response)
        \/ get_address(lat, lon, response)


(***************************************************************************)
(* The agent manager: AgentManager                                         *)
(***************************************************************************)

\* assign_task(agent_id, task_type, input_data): the task_id is a fresh uuid,
\* here the next index of tasks.
assign_task(agent_id, task_type) ==
    /\ Len(tasks) < MaxTasks
    /\ tasks' = Append(tasks, [agent_id |-> agent_id, task_type |-> task_type,
                               status |-> "pending"])
    /\ task_queue' = Append(task_queue, Len(tasks) + 1)
    /\ UNCHANGED <<running, executing, nonManagerVars>>

\* start_task_processor: self.running = True; stop_task_processor: False.
set_running(value) ==
    /\ running # value
    /\ running' = value
    /\ UNCHANGED <<tasks, task_queue, executing, nonManagerVars>>

\* One turn of the loop of start_task_processor, up to the call of the agent:
\* task_queue.get() and the head of execute_task, which raises ValueError for
\* an agent_id that is not registered (the loop logs it and goes on).
execute_task ==
    /\ running /\ executing = 0 /\ task_queue # <<>>
    /\ LET task_id == Head(task_queue)
       IN /\ task_queue' = Tail(task_queue)
          /\ IF tasks[task_id].agent_id \notin {"recommendation_agent"}
             THEN UNCHANGED <<tasks, executing>>
             ELSE /\ tasks' = [tasks EXCEPT ![task_id].status = "running"]
                  /\ executing' = task_id
    /\ UNCHANGED <<running, nonManagerVars>>

\* The rest of execute_task: _execute_task_by_type raises for an unknown
\* task type, and the agent's method returns or raises.
finish_task(agent_raises) ==
    /\ executing # 0
    /\ tasks' = [tasks EXCEPT ![executing].status =
                    IF agent_raises \/ tasks[executing].task_type \notin {"recommendation"}
                    THEN "failed" ELSE "completed"]
    /\ executing' = 0
    /\ UNCHANGED <<task_queue, running, nonManagerVars>>



(***************************************************************************)
(* The communication protocol: CommunicationProtocol                       *)
(***************************************************************************)

\* `agent_name in self.agent_subscriptions`
Subscribed(agent_name) ==
    \E i \in DOMAIN agent_subscriptions : agent_subscriptions[i].name = agent_name

\* register_agent(agent_name, message_handler): a new key is added at the
\* end of the dict, an existing key gets a new entry in its place.
comm_register_agent(agent_name, has_handler) ==
    LET entry == [name |-> agent_name, message_handler |-> has_handler,
                  message_count |-> 0]
    IN \* a registration equal to the entry in place changes nothing kept here
       /\ entry \notin {agent_subscriptions[i] : i \in DOMAIN agent_subscriptions}
       /\ agent_subscriptions' =
             IF Subscribed(agent_name)
             THEN [i \in DOMAIN agent_subscriptions |->
                      IF agent_subscriptions[i].name = agent_name
                      THEN entry ELSE agent_subscriptions[i]]
             ELSE Append(agent_subscriptions, entry)
       /\ UNCHANGED <<message_queue, lastProcess, nonCommVars>>

\* The state after send_message(sender, recipient, ...) for each recipient of
\* the sequence in turn: the message, with status "sent", is appended to the
\* queue and the recipient's message_count goes up when it is subscribed.
RECURSIVE send_all(_, _, _, _)
send_all(queue, subs, sender, recipients) ==
    IF recipients = <<>> THEN <<queue, subs>>
    ELSE send_all(
            Append(queue, [sender |-> sender, recipient |-> Head(recipients),
                           status |-> "sent", handled |-> 0]),
            [i \in DOMAIN subs |->
                IF subs[i].name = Head(recipients)
                THEN [subs[i] EXCEPT !.message_count = @ + 1] ELSE subs[i]],
            sender, Tail(recipients))

\* send_message(sender, recipient, message_type, content)
send_message(sender, recipient) ==
    /\ Len(message_queue) < MaxMessages
    /\ LET r == send_all(message_queue, agent_subscriptions, sender, <<recipient>>)
       IN message_queue' = r[1] /\ agent_subscriptions' = r[2]
    /\ UNCHANGED <<lastProcess, nonCommVars>>

\* broadcast_message(sender, message_type, content, exclude): a send_message
\* to every subscribed agent, in dict order, but the sender and the excluded.
broadcast_message(sender, exclude) ==
    LET to == SelectSeq(agent_subscriptions,
                        LAMBDA e : e.name # sender /\ e.name \notin exclude)
        recipients == [i \in DOMAIN to |-> to[i].name]
        r == send_all(message_queue, agent_subscriptions, sender, recipients)
    IN /\ recipients # <<>>
       /\ Len(message_queue) + Len(recipients) <= MaxMessages
       /\ message_queue' = r[1] /\ agent_subscriptions' = r[2]
       /\ UNCHANGED <<lastProcess, nonCommVars>>

\* The list comprehension of process_messages, with any status.
agent_messages_any_status(agent_name) ==
    {i \in DOMAIN message_queue : message_queue[i].recipient = agent_name}

\* The list comprehension of process_messages: the queued messages for the
\* agent whose status is "sent".
agent_messages(agent_name) ==
    {i \in DOMAIN message_queue :
        message_queue[i].recipient = agent_name /\ message_queue[i].status = "sent"}

\* process_messages(agent_name): each selected message is marked processed
\* and given to the handler when there is one; handler_raises are the
\* messages for which the handler raises, which are marked error instead.
process_messages(agent_name, handler_raises) ==
    /\ lastProcess' =
          [valid |-> TRUE, agent_name |-> agent_name,
           returned |-> IF Subscribed(agent_name)
                        THEN agent_messages(agent_name) \ handler_raises ELSE {}]
    /\ IF ~Subscribed(agent_name)
       THEN /\ handler_raises = {}
            /\ UNCHANGED message_queue
       ELSE LET handler ==
                    \E i \in DOMAIN agent_subscriptions :
                        /\ agent_subscriptions[i].name = agent_name
                        /\ agent_subscriptions[i].message_handler
            IN /\ handler_raises \subseteq agent_messages(agent_name)
               /\ handler_raises # {} => handler
               /\ message_queue' =
                     [i \in DOMAIN message_queue |->
                         IF i \notin agent_messages(agent_name) THEN message_queue[i]
                         ELSE [message_queue[i] EXCEPT
                                  !.status = IF i \in handler_raises
                                             THEN "error" ELSE "processed",
                                  !.handled = IF handler THEN @ + 1 ELSE @]]
    /\ UNCHANGED <<agent_subscriptions, nonCommVars>>

CommNext ==
    \/ \E a \in {"planner", "researcher"}, has_handler \in BOOLEAN :
          comm_register_agent(a, has_handler)
    \/ \E b \in {"planner", "user"}, a \in {"planner", "researcher"} : send_message(b, a)
    \/ \E b \in {"planner", "user"}, exclude \in SUBSET {"researcher"} :
          broadcast_message(b, exclude)
    \/ \E a \in {"planner", "researcher", "user"} :
          \E handler_raises \in SUBSET agent_messages(a) :
              process_messages(a, handler_raises)


(***************************************************************************)
(* The data pipeline: DataPipeline                                         *)
(***************************************************************************)

\* add_raw_data(source, data)
add_raw_data(source) ==
    /\ data_stages' = [data_stages EXCEPT !["raw_data"] = @ \cup {source}]
    /\ UNCHANGED <<processing_history, nonPipelineVars>>

\* process_data(processor_type): returns False without raw data.
process_data(processor_type) ==
    /\ data_stages["raw_data"] # {}
    /\ Len(processing_history) < MaxHistory
    /\ data_stages' = [data_stages EXCEPT !["processed_data"] = @ \cup {processor_type}]
    /\ processing_history' = Append(processing_history, "data_processing")
    /\ UNCHANGED nonPipelineVars

\* extract_ml_features(feature_types): returns False without processed data;
\* the stage is assigned a dict of four keys.
extract_ml_features ==
    /\ data_stages["processed_data"] # {}
    /\ Len(processing_history) < MaxHistory
    /\ data_stages' =
          [data_stages EXCEPT !["ml_features"] =
              {"feature_types", "extracted_at", "feature_count", "feature_quality"}]
    /\ processing_history' = Append(processing_history, "feature_extraction")
    /\ UNCHANGED nonPipelineVars

\* generate_recommendations(recommendation_type): returns False without features.
generate_recommendations(recommendation_type) ==
    /\ data_stages["ml_features"] # {}
    /\ Len(processing_history) < MaxHistory
    /\ data_stages' =
          [data_stages EXCEPT !["recommendations"] = @ \cup {recommendation_type}]
    /\ processing_history' = Append(processing_history, "recommendation_generation")
    /\ UNCHANGED nonPipelineVars

\* finalize_output(output_type): the stage is assigned a dict of four keys,
\* whatever the other stages hold.
finalize_output ==
    /\ Len(processing_history) < MaxHistory
    /\ data_stages' =
          [data_stages EXCEPT !["final_output"] =
              {"output_type", "finalized_at", "pipeline_summary", "data_quality"}]
    /\ processing_history' = Append(processing_history, "finalization")
    /\ UNCHANGED nonPipelineVars

\* clear_pipeline()
clear_pipeline ==
    /\ data_stages' = [stage \in DOMAIN data_stages |-> {}]
    /\ processing_history' = <<>>
    /\ UNCHANGED nonPipelineVars

\* _get_current_stage()
get_current_stage ==
    IF data_stages["final_output"] # {} THEN "completed"
    ELSE IF data_stages["recommendations"] # {} THEN "recommendations"
    ELSE IF data_stages["ml_features"] # {} THEN "ml_features"
    ELSE IF data_stages["processed_data"] # {} THEN "processed_data"
    ELSE IF data_stages["raw_data"] # {} THEN "raw_data"
    ELSE "initialized"


(***************************************************************************)
(* Specifications                                                          *)
(***************************************************************************)

\* The parts a specification does not exercise stay as constructed.
\* The later parts as constructed.
LateIdle ==
    /\ lastTravel = NoTravel
    /\ geocode_cache = [k \in GeoKeys |-> <<>>]
    /\ obtained = [k \in GeoKeys |-> <<>>]
    /\ lastGeo = [valid |-> FALSE, op |-> "none", lat |-> 0, lon |-> 0, prior |-> <<>>,
                  ret |-> <<>>, remote |-> FALSE]
    /\ tasks = <<>>
    /\ task_queue = <<>>
    /\ running = FALSE
    /\ executing = 0
    /\ message_queue = <<>>
    /\ agent_subscriptions = <<>>
    /\ lastProcess = [valid |-> FALSE, agent_name |-> "", returned |-> {}]
    /\ data_stages = [stage \in {"raw_data", "processed_data", "ml_features",
                                 "recommendations", "final_output"} |-> {}]
    /\ processing_history = <<>>
MoreIdle == ConcIdle /\ ScraperIdle /\ RateIdle /\ EngineIdle /\ LateIdle

\* A run of the workflow graph.
Init == GraphInit /\ now = 0 /\ StoreIdle /\ AdapterIdle /\ KeyIdle /\ MoreIdle
Next == GraphNext
Spec == Init /\ [][Next]_vars

\* The cache store under Get, Set, eviction and the passing of time.
InitStore == StoreInit /\ GraphIdle /\ AdapterIdle /\ KeyIdle /\ MoreIdle
SpecStore == InitStore /\ [][StoreNext]_vars

\* The adapter under calls, new collectors and the passing of time.
InitAdapter == AdapterInit /\ GraphIdle /\ StoreIdle /\ KeyIdle /\ MoreIdle
SpecAdapter == InitAdapter /\ [][AdapterNext]_vars

\* Cache key generation over all parameter mappings of the model.
InitKey == KeyInit /\ GraphIdle /\ now = 0 /\ StoreIdle /\ AdapterIdle /\ MoreIdle
SpecKey == InitKey /\ [][KeyNext]_vars

\* The cache store called from several threads, statement by statement.
InitConc ==
    ConcInit /\ GraphIdle /\ StoreIdle /\ AdapterIdle /\ KeyIdle /\ ScraperIdle /\ RateIdle
        /\ EngineIdle /\ LateIdle
SpecConc == InitConc /\ [][ConcNext]_vars

\* The web scraper under calls and the passing of time.
InitScraper ==
    ScraperInit /\ GraphIdle /\ StoreIdle /\ AdapterIdle /\ KeyIdle /\ ConcIdle /\ RateIdle
        /\ EngineIdle /\ LateIdle
SpecScraper == InitScraper /\ [][ScraperNext]_vars

\* One collector's rate limiter under calls arriving at any times.
InitRate == now = 0 /\ GraphIdle /\ StoreIdle /\ AdapterIdle /\ KeyIdle /\ MoreIdle
SpecRate == InitRate /\ [][RateNext]_vars

\* The workflow engine under registrations, executions and the passing of time.
InitEngine ==
    EngineInit /\ GraphIdle /\ StoreIdle /\ AdapterIdle /\ KeyIdle /\ ConcIdle
        /\ ScraperIdle /\ RateIdle /\ LateIdle
SpecEngine == InitEngine /\ [][EngineNext]_vars

\* The parts of the program as constructed, before any call.
InitAll == now = 0 /\ GraphIdle /\ StoreIdle /\ AdapterIdle /\ KeyIdle /\ MoreIdle

\* The run entry point under calls with any parameters.
SpecTravel == InitAll /\ [][RunTravel]_vars

\* The geocode cache under lookups of any coordinates.
SpecGeo == InitAll /\ [][GeoNext]_vars

\* The agent manager under assignments and the turns of its task processor.
SpecManager ==
    InitAll /\ [][\/ \E agent_id \in {"recommendation_agent", "agent_x"},
                        task_type \in {"recommendation", "teleport"} :
                        assign_task(agent_id, task_type)
                  \/ \E value \in BOOLEAN : set_running(value)
                  \/ execute_task
                  \/ \E agent_raises \in BOOLEAN : finish_task(agent_raises)]_vars

\* The communication protocol under any sequence of calls.
SpecComm == InitAll /\ [][CommNext]_vars

\* The data pipeline under any sequence of calls.
SpecPipeline ==
    InitAll /\ [][\/ \E source \in {"api", "web"} : add_raw_data(source)
                  \/ \E processor_type \in {"clean", "normalize"} :
                        process_data(processor_type)
                  \/ extract_ml_features
                  \/ \E recommendation_type \in {"hotels", "food"} :
                        generate_recommendations(recommendation_type)
                  \/ finalize_output
                  \/ clear_pipeline]_vars


(***************************************************************************)
(* Properties of the workflow graph                                        *)
(***************************************************************************)

Terminal(s) == stageState[s] \in {"Done", "Errored"}
Terminated == runStatus \in {"Completed", "Failed"}
Occurrences(seq, x) == Cardinality({i \in DOMAIN seq : seq[i] = x})

\* C1 - Error containment: when exactly one non-sink stage raises, the run
\* that has ended has executed analytics_engine, is Completed, and holds the
\* entry of that stage in errors.
C1_ErrorContainment ==
    \A s \in Stages \ {Sink} :
        (raises = {s} /\ Terminated) =>
            /\ Terminal(Sink)
            /\ runStatus = "Completed"
            /\ Occurrences(state.errors, s) >= 1

\* C2 - Topological respect: a stage that has started has all its upstream
\* stages Done or Errored.
C2_TopologicalRespect ==
    \A s \in Stages :
        stageState[s] # "Waiting" => \A p \in Upstream(s) : Terminal(p)

\* planner is running after the four analysis stages ended, one of them in error.
C2_Witness ==
    /\ stageState["planner"] = "Running"
    /\ stageState["recommendation"] = "Errored"
    /\ stageState["price_predictor"] = "Done"

\* C3 - Convergence completeness: planner starts only after the four parallel
\* stages are Done or Errored, never twice, and exactly once in a run that
\* has ended.
C3_ConvergenceCompleteness ==
    /\ stageState["planner"] # "Waiting" => \A p \in ParallelStages : Terminal(p)
    /\ dispatched["planner"] <= 1
    /\ Terminated => dispatched["planner"] = 1

\* C4 - The sink is always reached: a run can always take a step until it has
\* ended, and when it has ended analytics_engine was executed.
C4_SinkAlwaysReached ==
    /\ Terminated => Terminal(Sink)
    /\ (runStatus = "Running") => ENABLED GraphNext

\* C5 - Step and error recording: when a run has ended, every stage is recorded
\* exactly once, in steps_completed if it succeeded and in errors if it raised.
C5_StepAndErrorRecording ==
    Terminated =>
        \A s \in Stages :
            /\ Terminal(s)
            /\ stageState[s] = "Done" =>
                  Occurrences(state.steps_completed, s) = 1
                      /\ Occurrences(state.errors, s) = 0
            /\ stageState[s] = "Errored" =>
                  Occurrences(state.errors, s) = 1
                      /\ Occurrences(state.steps_completed, s) = 0

\* C6 - errors is append-only: the entry a stage has recorded is never dropped,
\* so once the writes of a stage that raised are applied (no returned dict is
\* waiting) its entry is in errors, in the final state too.
C6_ErrorsAppendOnly ==
    pending = <<>> =>
        \A s \in Stages : stageState[s] = "Errored" => Occurrences(state.errors, s) >= 1

\* C7 - Parallel stages write disjoint field sets: no field is written by two
\* of the nodes of one superstep.
C7_DisjointWrites ==
    \A i, j \in 1..Len(pending) :
        i # j => pending[i].ret.keys \cap pending[j].ret.keys = {}

(***************************************************************************)
(* Properties of the cache                                                 *)
(***************************************************************************)

\* C8 - TTL semantics: a Get of a key whose last Set (value v, at time t, for
\* ttl hours) was not followed by an eviction or clear of the key returns v
\* when now < t + ttl and a miss when now >= t + ttl.
C8_TtlSemantics ==
    (lastGet.valid /\ written[lastGet.key].set) =>
        LET w == written[lastGet.key]
            expiry == w.time + w.cache_hours * TicksPerHour
        IN /\ now < expiry => lastGet.ret = Some(w.value)
           /\ now >= expiry => lastGet.ret = None

\* A Get at exactly t + ttl, of an entry that is still stored, has missed.
C8_Witness ==
    /\ lastGet.valid
    /\ written[lastGet.key].set
    /\ written[lastGet.key].cache_hours > 0
    /\ written[lastGet.key].value # <<>>
    /\ now = written[lastGet.key].time + written[lastGet.key].cache_hours * TicksPerHour
    /\ api_cache[lastGet.key].present
    /\ api_cache[lastGet.key].hit_count > 0
    /\ lastGet.ret = None

\* C9 - Cache-key determinism: two parameter mappings with the same key-value
\* pairs get the same cache key, whatever their insertion order.
C9_KeyDeterminism ==
    (kpc = "generated" /\ Items(kreq.params) = Items(kparams2)) => kkeys[1] = kkeys[2]

\* Two mappings of three pairs inserted in different orders were given keys.
C9_Witness ==
    /\ kpc = "generated"
    /\ Items(kreq.params) = Items(kparams2)
    /\ Len(kparams2) = 3
    /\ kreq.params # kparams2

\* C10 - Cache-first adapter call: a call whose key held an unexpired entry
\* returns the stored value and makes no remote request.
C10_CacheFirst ==
    (lastCall.valid /\ lastCall.hadEntry) =>
        lastCall.ret = lastCall.stored /\ ~lastCall.remote

\* C11 - EvictExpired: clear_expired_cache at time now removes every entry with
\* expires_at <= now, leaves every other entry unchanged and returns the number
\* of entries it removed, so that no stored entry is one Get treats as expired.
C11_EvictExpired ==
    lastClear.valid =>
        LET expired == {k \in StoreKeys : lastClear.before[k].present
                                             /\ lastClear.before[k].expires_at <= now}
        IN /\ \A k \in expired : ~api_cache[k].present
           /\ \A k \in StoreKeys \ expired : api_cache[k] = lastClear.before[k]
           /\ lastClear.api_deleted = Cardinality(expired)
           /\ \A k \in StoreKeys : ~(api_cache[k].present
                                        /\ ~SelectUnexpired(api_cache, k, now))

\* C12 - Set is an upsert: after set_api_cache(key, v, ttl) on a key that had
\* an entry, exactly one entry exists for the key, holding v,
\* created_at = now, expires_at = now + ttl and hit_count = 0.
C12_SetIsUpsert ==
    (lastStmt.op = "set" /\ lastStmt.replaced) =>
        LET mine == {r \in cache_rows : r.cache_key = lastStmt.key}
        IN /\ Cardinality(mine) = 1
           /\ \A r \in mine :
                 /\ json_loads(r.response_data) = lastStmt.value
                 /\ r.created_at = lastStmt.at
                 /\ r.expires_at = lastStmt.at + lastStmt.hours * TicksPerHour
                 /\ r.hit_count = 0

\* A Set has replaced an entry that had been read, with another value.
C12_Witness ==
    /\ lastStmt.op = "set"
    /\ lastStmt.replaced
    /\ lastStmt.hadHits
    /\ lastStmt.value # <<>>
    /\ lastStmt.at > 0
    /\ lastStmt.hours > 0

\* C13 - Entry invariant: every stored entry has expires_at > created_at, for
\* every cache_hours set_api_cache accepts.
C13_EntryInvariant ==
    \A k \in StoreKeys : api_cache[k].present =>
        api_cache[k].expires_at > api_cache[k].created_at

\* C14 - Concurrent cache safety: under every interleaving of the statements
\* of concurrent Get, Set and EvictExpired calls the table holds at most one
\* row per key, and a Get that has returned gave a miss or a value that a Set
\* wrote for the key and that was unexpired when the Get read it.
C14_ConcurrentCacheSafety ==
    /\ \A r1, r2 \in cache_rows : r1.cache_key = r2.cache_key => r1 = r2
    /\ lastStmt.op = "get" =>
          \/ lastStmt.ret = None
          \/ /\ <<lastStmt.key, lastStmt.ret.value>> \in setLog
             /\ lastStmt.at < lastStmt.expires_at

\* A Get has returned the value it read although another thread replaced the
\* entry between the Get's SELECT and its UPDATE.
C14_Witness ==
    /\ lastStmt.op = "get"
    /\ lastStmt.ret # None
    /\ \E r \in cache_rows :
          /\ r.cache_key = lastStmt.key
          /\ json_loads(r.response_data) # lastStmt.ret.value
          /\ r.hit_count = 1

\* C26 - Hit counting: under every interleaving of Gets and Sets on a key,
\* an entry's hit_count counts the Gets that returned the entry's current
\* value since its last Set: the Get that completes adds to the count of an
\* entry only when the value it returns is the entry's, and a Get that
\* misses changes no entry.
C26_HitCounting ==
    [][/\ \A t \in Threads :
             (conn[t].pc = "selected" /\ conn'[t].pc = "idle") =>
                 \A r \in cache_rows :
                     (r.cache_key = conn[t].key
                        /\ r.response_data # conn[t].response_data) =>
                            r \in cache_rows'
       /\ (lastStmt' # lastStmt /\ lastStmt'.op = "get" /\ lastStmt'.ret = None) =>
             cache_rows' = cache_rows]_vars

(***************************************************************************)
(* Properties of the adapters                                              *)
(***************************************************************************)

\* C15 - Cache I/O errors are non-fatal: no exception of the cache escapes an
\* adapter call; a call whose cache read failed goes on as on a miss (it makes
\* the real request when it has an API key), and a call whose cache write
\* failed after a successful request returns the fetched body.
C15_CacheErrorsNonFatal ==
    (lastCall.valid /\ lastCall.outcome \in {"read_fails", "write_fails"}) =>
        /\ ~lastCall.raised
        /\ (lastCall.outcome = "read_fails" /\ "google_places" \in api_keys) =>
              lastCall.remote
        /\ (lastCall.outcome = "write_fails" /\ lastCall.remote) => lastCall.ret # None

\* C16 (as stated) - Bounded retry: when every attempt of the real call fails
\* with a network error the adapter makes at most 3 request attempts in total
\* (the configured retry count), sleeps exponentially growing delays between
\* them and returns None.
C16_BoundedRetry ==
    (lastFetch.valid /\ ~lastFetch.hit /\ lastFetch.fails > max_retries) =>
        /\ lastFetch.attempts <= max_retries
        /\ \A i \in 1..(Len(lastFetch.sleeps) - 1) :
              lastFetch.sleeps[i + 1] = 2 * lastFetch.sleeps[i]
        /\ lastFetch.ret = None

\* C16 (amended) - when every attempt fails with a network error _make_request
\* makes max_retries + 1 = 4 requests (the first and max_retries retries),
\* sleeps 1, 2, 4 seconds of backoff before the retries, and returns None.
C16_BoundedRetryAmended ==
    (lastFetch.valid /\ ~lastFetch.hit /\ lastFetch.fails > max_retries) =>
        /\ lastFetch.attempts = max_retries + 1
        /\ Len(lastFetch.sleeps) = max_retries
        /\ lastFetch.sleeps[1] = 1
        /\ \A i \in 1..(Len(lastFetch.sleeps) - 1) :
              lastFetch.sleeps[i + 1] = 2 * lastFetch.sleeps[i]
        /\ lastFetch.ret = None

\* A call on a cache miss whose every request failed has returned.
C16_Witness ==
    /\ lastFetch.valid
    /\ ~lastFetch.hit
    /\ lastFetch.fails > max_retries
    /\ lastFetch.attempts > 1

\* C17 - Rate ceiling: the calls _rate_limit_check lets through in any window
\* of one second (the calls released at one instant of the clock of seconds)
\* are at most requests_per_second; a call over the ceiling is held back.
C17_RateCeiling ==
    \A t \in 0..MaxNow : released[t] <= requests_per_second("google_places")

\* C18 - Only successful calls are cached: an adapter call whose real request
\* fails (network error or HTTP error status) or that has no API key leaves
\* the cache as it was, and a call that changes the cache has made a real
\* request that succeeded.
C18_OnlySuccessCached ==
    [][lastCall'.valid =>
          /\ (lastCall'.outcome = "request_fails" \/ "google_places" \notin api_keys)
                => collector_cache' = collector_cache
          /\ collector_cache' # collector_cache
                => lastCall'.remote /\ lastCall'.outcome = "ok" /\ lastCall'.ret # None]_vars

\* A call whose real request failed has returned while the cache holds an
\* expired entry of its key.
C18_Witness ==
    /\ lastCall.valid
    /\ lastCall.remote
    /\ lastCall.outcome = "request_fails"
    /\ lastCall.ret = None
    /\ \E k \in AdapterKeys : collector_cache[k].present /\ collector_cache[k].expires_at <= now

(***************************************************************************)
(* Properties of the workflow engine                                       *)
(***************************************************************************)

\* The run that has just returned was of a registered workflow.
RanRegistered == lastRun.valid /\ lastRun.name \in WorkflowNames
                     /\ workflows[lastRun.name].registered

\* The error of the last run is structural: unknown workflow, a configuration
\* that is not a dict of dict steps, or input that is not a dict.
Structural ==
    \/ ~RanRegistered
    \/ ~lastRun.input_ok
    \/ ~workflows[lastRun.name].config.dict
    \/ \E i \in DOMAIN workflows[lastRun.name].config.steps :
          ~workflows[lastRun.name].config.steps[i].dict

\* C19 - Run-level failed is reserved for structural errors: a run is marked
\* failed only when the error is structural, and a run in which only steps
\* reported errors ends completed with each of those errors in the result.
C19_FailedOnlyStructural ==
    lastRun.valid =>
        /\ lastRun.status = "failed" => Structural
        /\ (~Structural /\ lastRun.reported # {}) =>
              /\ lastRun.status = "completed"
              /\ \A i \in lastRun.reported : lastRun.error = StepErr(i)

\* C20 - A step error does not abort the run: when one step of a registered
\* workflow fails, at any position, every step of the workflow is executed in
\* order and the failure is recorded in the result.
C20_StepErrorDoesNotAbort ==
    (RanRegistered /\ lastRun.input_ok /\ workflows[lastRun.name].config.dict) =>
        LET steps == workflows[lastRun.name].config.steps
            failing == {i \in DOMAIN steps : Raises(steps[i]) \/ ReturnsError(steps[i])}
        IN Cardinality(failing) = 1 =>
              /\ lastRun.attempted = [i \in DOMAIN steps |-> i]
              /\ \A i \in failing : lastRun.error = StepErr(i)

\* C21 - Unknown names are rejected at construction: a registered workflow
\* has no step of an unknown type or of an unregistered agent left for a run
\* to discover, so no step of a run reports such an error while executing.
C21_UnknownNamesRejected ==
    (RanRegistered /\ workflows[lastRun.name].config.dict) =>
        \A i \in lastRun.reported :
            ~ReturnsError(workflows[lastRun.name].config.steps[i])

\* C22 - Run validation: a run request with an empty destination, or with a
\* budget, day count or traveler count that is not greater than 0, returns a
\* structural error, and no workflow stage is executed for it.
InvalidRequest ==
    \/ lastTravel.destination = ""
    \/ lastTravel.budget.numeric /\ lastTravel.budget.value <= 0
    \/ lastTravel.days <= 0
    \/ lastTravel.travelers <= 0

C22_RunValidation ==
    (lastTravel.valid /\ InvalidRequest) =>
        /\ lastTravel.error
        /\ lastTravel.steps_completed = <<>>
        /\ \A s \in Stages : dispatched[s] = 0

\* C23 - Run delegates to the executor: for every valid parameter set,
\* run_travel_workflow executes the workflow graph once, and the
\* steps_completed and errors it returns are those the graph run accumulated.
C23_RunDelegates ==
    (lastTravel.valid /\ lastTravel.budget.numeric /\ ~InvalidRequest) =>
        /\ runStatus \in {"Completed", "Failed"}
        /\ lastTravel.steps_completed = state.steps_completed
        /\ lastTravel.errors_encountered = Len(state.errors)

\* C24 - Deadline partial result: a run given a deadline shorter than the
\* runtime of its steps dispatches no step after the deadline has expired
\* (the step then running finishes) and returns failed with a timeout error
\* distinct from the step errors.
TimeoutErr == [kind |-> "timeout", step |-> 0]

C24_DeadlinePartialResult ==
    (RanRegistered /\ lastRun.input_ok /\ workflows[lastRun.name].config.dict) =>
        LET steps == workflows[lastRun.name].config.steps
        IN (lastRun.deadline < Len(steps) /\ \A i \in DOMAIN steps : ~Raises(steps[i])) =>
              /\ Len(lastRun.attempted) <= lastRun.deadline + 1
              /\ lastRun.status = "failed"
              /\ lastRun.error = TimeoutErr

C27_OneRecordPerExecution ==
    [][(/\ now' = now /\ workflows' = workflows /\ agent_registry' = agent_registry
        /\ lastRun'.valid /\ lastRun'.name \in WorkflowNames
        /\ workflows[lastRun'.name].registered) =>
           /\ Cardinality(DOMAIN active_workflows') =
                 Cardinality(DOMAIN active_workflows) + 1
           /\ lastRun'.status = "completed" =>
                 Len(workflow_history') = Len(workflow_history) + 1
           /\ \A id \in DOMAIN active_workflows :
                 active_workflows'[id] = active_workflows[id]]_vars

\* C28 - Task completion: while the task processor runs, every task accepted
\* by assign_task, for any agent_id and task_type, leaves status pending and
\* reaches completed or failed.  A task the processor has taken from the queue
\* and is no longer executing is never taken again, so it must then be
\* completed or failed.
C28_TaskCompletion ==
    \A task_id \in DOMAIN tasks :
        (executing # task_id /\ \A i \in DOMAIN task_queue : task_queue[i] # task_id) =>
            tasks[task_id].status \in {"completed", "failed"}

\* C29 - At-most-once message handling: over every sequence of register_agent,
\* send_message, broadcast_message and process_messages calls each message is
\* handed to its recipient's handler at most once, and a message whose status
\* has become processed or error is never handed to a handler again and never
\* returns to status sent.
C29_AtMostOnce ==
    [][\A i \in DOMAIN message_queue :
          /\ message_queue'[i].handled <= 1
          /\ message_queue[i].status \in {"processed", "error"} =>
                /\ message_queue'[i].handled = message_queue[i].handled
                /\ message_queue'[i].status # "sent"]_vars

\* A process_messages call has handled a message for an agent and passed
\* over an earlier message of the agent, handled by a call before it.
C29_Witness ==
    /\ lastProcess.valid
    /\ lastProcess.returned # {}
    /\ \A i \in lastProcess.returned : message_queue[i].handled = 1
    /\ \E i \in DOMAIN message_queue :
          /\ message_queue[i].recipient = lastProcess.agent_name
          /\ i \notin lastProcess.returned
          /\ message_queue[i].status = "processed"
          /\ message_queue[i].handled = 1

\* C30 - Pipeline stage order: in every reachable state of the pipeline, a
\* stage that holds data has data in every stage before it in the order
\* raw_data, processed_data, ml_features, recommendations, final_output, and
\* _get_current_stage reports completed only when all earlier stages hold data.
StageOrder ==
    <<"raw_data", "processed_data", "ml_features", "recommendations", "final_output">>

C30_PipelineStageOrder ==
    /\ \A i, j \in DOMAIN StageOrder :
          (i < j /\ data_stages[StageOrder[j]] # {}) => data_stages[StageOrder[i]] # {}
    /\ get_current_stage = "completed" =>
          \A i \in DOMAIN StageOrder : data_stages[StageOrder[i]] # {}

====
